---- MODULE Spec2Model ----
(***************************************************************************)
(* aluring: a synchronous wrapper around io_uring.                         *)
(*                                                                         *)
(* The model holds the engine state of src/src/lib.rs (UringState: id_gen, *)
(* map, submitted_count), the two handle types of the sources (the Handle  *)
(* of src/src/lib.rs returned by Uring::read, and the typed handles of     *)
(* src/src/handle.rs), and the io_uring ring as an environment: a          *)
(* submission queue of prepared entries, the operations the kernel is      *)
(* executing, and a completion queue.  The caller is one thread; its       *)
(* position is pc.  The kernel completes operations concurrently.          *)
(***************************************************************************)
EXTENDS Integers, Sequences, FiniteSets, TLC

\* Bounds of the model.
MaxOps == 3        \* prepares per ring (bounds id_gen)
LiveOps == 2       \* prepares per ring where termination of wait is checked
QueueDepth == 2    \* `entries` given to Uring::new
BarrierDepth == 3  \* `entries` given to Uring::new by the barrier program
MaxBusy == 1       \* EBUSY reports per flush
ResBits == 3       \* width of the raw result code (i32 in the sources)

\* Raw result codes the kernel may report (cqe.res).
Codes == {-1, 1}
\* The descriptor of a kind that owns no buffer.
NoBuf == "nobuf"
BufKinds == {"Read", "Write", "Madvise"}
SyncKinds == {"Fsync", "Fdatasync"}
UringOperationKind == BufKinds \cup SyncKinds

VARIABLES
    entries,    \* ring: the number of slots of the submission queue
    state,      \* UringState: [id_gen, map, submitted_count]
    sq,         \* ring: entries prepared and not yet flushed
    inflight,   \* ring: entries the kernel is executing, in submission order
    cq,         \* ring: completions posted and not yet seen
    handles,    \* id -> the handle created for it, with its history while alive
    pc,         \* the caller's position
    cont,       \* the call a flush in progress belongs to
    arg,        \* the request of a prepare waiting for its flush
    target,     \* the identity the wait in progress is for
    busy,       \* EBUSY reports in the flush in progress
    w,          \* bookkeeping of the wait in progress
    ret         \* what the step just taken returned to the caller (NoRet: nothing)

vars == <<entries, state, sq, inflight, cq, handles, pc, cont, arg, target, busy, w, ret>>

----------------------------------------------------------------------------
\* Registry (HashMap<u64, UringOperation>) helpers.

EmptyMap == [i \in {} |-> 0]

MapRemove(m, id) == [i \in DOMAIN m \ {id} |-> m[i]]

MapInsert(m, id, e) == [i \in DOMAIN m \cup {id} |-> IF i = id THEN e ELSE m[i]]

\* UringOperation { status, kind }; the kind carries the buffer.
Ongoing(kind, buf) == [status |-> "Ongoing", res |-> 0, kind |-> kind, buf |-> buf]

UringState_new == [id_gen |-> 0, map |-> EmptyMap, submitted_count |-> 0]

\* Results of wait.
NoOut == [tag |-> "None", res |-> 0, kind |-> "", buf |-> "", err |-> ""]
OkOut(res, kind, buf) == [tag |-> "Ok", res |-> res, kind |-> kind, buf |-> buf, err |-> ""]
ErrOut(e) == [tag |-> "Err", res |-> 0, kind |-> "", buf |-> "", err |-> e]

\* Error::InternalError carries a message; the four the sources build.
NoEntry == "InternalError: no entry in the state map"
NotFound == "InternalError: wait_for could not find the operation"
NotFinished == "InternalError: operation is not finished"
InvalidConversion == "InternalError: invalid conversion"
InternalError == {NoEntry, NotFound, NotFinished, InvalidConversion}

\* A handle that is gone (consumed by wait, or dropped) keeps no history.
Gone(st) ==
    [st |-> st, flavour |-> "", kind |-> "", buf |-> "", drain |-> FALSE, skip |-> FALSE,
     done |-> FALSE, kres |-> 0, absorbed |-> FALSE, before |-> {}, barrier |-> FALSE]

NoArg == [flavour |-> "", kind |-> "", buf |-> "", drain |-> FALSE, skip |-> FALSE]
NoWait == [flushes |-> 0, drained |-> 0, seen |-> 0, discarded |-> 0,
           unsent |-> FALSE, direct |-> FALSE]
NoRet == [op |-> "", id |-> 0, n |-> 0, err |-> "", fl |-> 0, out |-> NoOut,
          h |-> Gone(""), w |-> NoWait]

Ret(op, id, n, err, fl) ==
    [op |-> op, id |-> id, n |-> n, err |-> err, fl |-> fl, out |-> NoOut,
     h |-> Gone(""), w |-> NoWait]

----------------------------------------------------------------------------
\* The engine's functions, as functions of the state they change.

\* A faulty handle_cqe that records the result of a Cancelled identity like
\* any other instead of removing its entry.
handle_cqe_keeps_cancelled(s, cqe) ==
    LET s1 == [s EXCEPT !.submitted_count = @ - 1]
        id == cqe.id
    IN  IF id \notin DOMAIN s1.map
        THEN [state |-> s1, ok |-> FALSE, id |-> id, discarded |-> FALSE]
        ELSE [state |-> [s1 EXCEPT !.map[id].status = "Completed",
                                   !.map[id].res = cqe.res],
              ok |-> TRUE, id |-> id, discarded |-> FALSE]

\* A faulty handle_cqe that removes the entry of every identity it drains,
\* losing the result of an identity that is still awaited.
handle_cqe_forgets(s, cqe) ==
    LET s1 == [s EXCEPT !.submitted_count = @ - 1]
        id == cqe.id
    IN  IF id \notin DOMAIN s1.map
        THEN [state |-> s1, ok |-> FALSE, id |-> id, discarded |-> FALSE]
        ELSE [state |-> [s1 EXCEPT !.map = MapRemove(@, id)],
              ok |-> TRUE, id |-> id, discarded |-> TRUE]

\* Uring::handle_cqe: one completion (id, res) taken from the ring.
handle_cqe(s, cqe) ==
    LET s1 == [s EXCEPT !.submitted_count = @ - 1]
        id == cqe.id
    IN  IF id \notin DOMAIN s1.map
        THEN [state |-> s1, ok |-> FALSE, id |-> id, discarded |-> FALSE]
        ELSE IF s1.map[id].status = "Cancelled"
             THEN [state |-> [s1 EXCEPT !.map = MapRemove(@, id)],
                   ok |-> TRUE, id |-> id, discarded |-> TRUE]
             ELSE [state |-> [s1 EXCEPT !.map[id].status = "Completed",
                                        !.map[id].res = cqe.res],
                   ok |-> TRUE, id |-> id, discarded |-> FALSE]

\* A faulty submit_with_context that does not add what was flushed to the
\* outstanding count.
submit_without_count(s, submitted) == s

\* Uring::submit_with_context, the success path: io_uring_submit returned ret >= 0.
submit_with_context(s, submitted) ==
    [s EXCEPT !.submitted_count = @ + submitted]

\* A faulty prepare that registers the entry without advancing the generator.
prepare_without_increment(s, kind, buf) ==
    [s EXCEPT !.map = MapInsert(@, s.id_gen + 1, Ongoing(kind, buf))]

\* Uring::prepare after the slot was acquired: the next identity and its entry.
prepare(s, kind, buf) ==
    LET id == s.id_gen + 1
    IN  [s EXCEPT !.id_gen = id, !.map = MapInsert(@, id, Ongoing(kind, buf))]

\* A faulty Drop for Handle that removes the entry whatever its status.
Handle_drop_removes(m, id) ==
    IF id \in DOMAIN m THEN MapRemove(m, id) ELSE m

\* Drop for Handle (the same code in both handle types).
Handle_drop(m, id) ==
    IF id \in DOMAIN m
    THEN IF m[id].status = "Completed"
         THEN MapRemove(m, id)
         ELSE [m EXCEPT ![id].status = "Cancelled"]
    ELSE m

\* A faulty observed with the test on the status inverted.
Handle_observed_inverted(m, id) ==
    IF id \in DOMAIN m THEN m[id].status # "Completed" ELSE FALSE

\* Handle::observed (src/src/handle.rs).
Handle_observed(m, id) ==
    IF id \in DOMAIN m THEN m[id].status = "Completed" ELSE FALSE

\* A faulty try_into that accepts an operation of any kind.
try_into_any_kind(res, kind, buf, K) ==
    OkOut(res, kind, IF K \in BufKinds THEN buf ELSE NoBuf)

\* TryInto<$result> for (i32, UringOperationKind): decode into the result
\* type of handle kind K.
try_into(res, kind, buf, K) ==
    IF kind = K
    THEN OkOut(res, kind, IF K \in BufKinds THEN buf ELSE NoBuf)
    ELSE ErrOut(InvalidConversion)

\* What wait hands back once the entry was removed from the map.
\* lib.rs Handle::wait: UringResult { res, kind } or InternalError.
LibWaitResult(e) ==
    IF e.status = "Completed" THEN OkOut(e.res, e.kind, e.buf)
    ELSE ErrOut(NotFinished)

\* handle.rs Handle::wait followed by the typed handle's try_into.
TypedWaitResult(e, K) ==
    IF e.status = "Completed" THEN try_into(e.res, e.kind, e.buf, K)
    ELSE ErrOut("panic")

----------------------------------------------------------------------------
\* Uring::new(entries): the state after construction.
Uring_new(n) ==
    /\ entries = n
    /\ state = UringState_new
    /\ sq = <<>>
    /\ inflight = <<>>
    /\ cq = <<>>
    /\ handles = EmptyMap
    /\ pc = "idle"
    /\ cont = ""
    /\ arg = NoArg
    /\ target = 0
    /\ busy = 0
    /\ w = NoWait
    /\ ret = NoRet

Init == Uring_new(QueueDepth)

----------------------------------------------------------------------------
\* The ring collaborator.

\* io_uring_get_sqe: a slot is free while fewer than depth entries wait.
io_uring_get_sqe(q, depth) == Len(q) < depth

SqIds(q) == {q[i].id : i \in 1..Len(q)}

RemoveAt(q, i) == [j \in 1..(Len(q) - 1) |-> IF j < i THEN q[j] ELSE q[j + 1]]

\* IOSQE_IO_DRAIN: a drain entry completes after every entry submitted before
\* it, and the entries submitted after it complete after it.
CanComplete(q, i) ==
    /\ \A j \in 1..(i - 1) : ~q[j].drain
    /\ q[i].drain => i = 1

\* IOSQE_CQE_SKIP_SUCCESS: no completion is posted for a successful entry.
PostsCqe(e, code) == ~(e.skip /\ code >= 0)

\* The identities flushed in one batch ahead of the entry at position i.
Before(q, i) == {q[j].id : j \in 1..(i - 1)}

\* History: the live handle of a drain entry learns what was flushed ahead of
\* it in its batch.
Flushed(hs, q) ==
    [id \in DOMAIN hs |->
        IF hs[id].st = "live" /\ hs[id].drain /\ \E i \in 1..Len(q) : q[i].id = id
        THEN [hs[id] EXCEPT !.before = Before(q, CHOOSE i \in 1..Len(q) : q[i].id = id)]
        ELSE hs[id]]

----------------------------------------------------------------------------
\* Uring::prepare once a slot is there: the effect on the engine, the ring and
\* the caller, from engine state s and submission queue q; fl implicit flushes
\* were needed.
PrepareEffect(s, q, a, fl) ==
    LET id == s.id_gen + 1
    IN  [state |-> prepare(s, a.kind, a.buf),
         sq |-> Append(q, [id |-> id, drain |-> a.drain, skip |-> a.skip]),
         handle |-> [Gone("live") EXCEPT !.flavour = a.flavour, !.kind = a.kind,
                                         !.buf = a.buf, !.drain = a.drain,
                                         !.skip = a.skip],
         ret |-> Ret("prepare", id, 0, "", fl)]

\* A faulty sqe that flushes before it asks for a slot, whatever the queue
\* holds.
sqe_always_flushes(q, depth) == FALSE

\* Uring::sqe: the first io_uring_get_sqe gave a slot.
sqe_first(q, depth) == io_uring_get_sqe(q, depth)

\* A faulty sqe that does not ask for a slot again after the implicit flush.
sqe_without_retry(q, depth) == FALSE

\* Uring::sqe: after the implicit flush, the one retry gave a slot
\* (otherwise GetSqeError).
sqe_retry(q, depth) == io_uring_get_sqe(q, depth)

\* Uring::prepare / Uring::sqe up to the first io_uring_get_sqe.
PrepareCall(a) ==
    /\ UNCHANGED entries
    /\ pc = "idle"
    /\ IF sqe_first(sq, entries)
       THEN LET p == PrepareEffect(state, sq, a, 0)
            IN  /\ state' = p.state
                /\ sq' = p.sq
                /\ handles' = MapInsert(handles, p.ret.id, p.handle)
                /\ ret' = p.ret
                /\ UNCHANGED <<inflight, cq, pc, cont, arg, target, busy, w>>
       ELSE /\ pc' = "flush"
            /\ cont' = "prepare"
            /\ arg' = a
            /\ busy' = 0
            /\ ret' = NoRet /\ UNCHANGED <<state, sq, inflight, cq, handles, target, w>>

\* Uring::read (src/src/lib.rs): the handle is the Handle of lib.rs.
Uring_read(buf) ==
    PrepareCall([flavour |-> "lib", kind |-> "Read", buf |-> buf,
                 drain |-> FALSE, skip |-> FALSE])

\* Uring::prepare_read .. prepare_madvise: the handle is a typed handle.
Uring_prepare(kind, buf, drain, skip) ==
    PrepareCall([flavour |-> "typed", kind |-> kind, buf |-> buf,
                 drain |-> drain, skip |-> skip])

\* Uring::submit.
Uring_submit ==
    /\ UNCHANGED entries
    /\ pc = "idle"
    /\ pc' = "flush"
    /\ cont' = "submit"
    /\ busy' = 0
    /\ ret' = NoRet /\ UNCHANGED <<state, sq, inflight, cq, handles, arg, target, w>>

\* History: when the wait on a drain entry succeeds, the live handles of the
\* entries flushed ahead of it in its batch are marked.
Barrier(hs, id, out) ==
    [j \in DOMAIN hs |->
        IF j = id THEN Gone("gone")
        ELSE IF out.tag = "Ok" /\ hs[id].drain /\ j \in hs[id].before /\ hs[j].st = "live"
             THEN [hs[j] EXCEPT !.barrier = TRUE]
             ELSE hs[j]]

\* The end of a wait on id, with engine state s and result out: the handle is
\* consumed, and dropped as wait returns.
WaitReturn(id, s, out, wfin) ==
    /\ state' = [s EXCEPT !.map = Handle_drop(@, id)]
    /\ handles' = Barrier(handles, id, out)
    /\ pc' = "idle"
    /\ target' = 0
    /\ w' = NoWait
    /\ ret' = [op |-> "wait", id |-> id, n |-> 0, err |-> out.err, fl |-> wfin.flushes,
               out |-> out, h |-> handles[id], w |-> wfin]

\* libc::EBUSY.
EBUSY == 16

\* Other errors io_uring_submit may report (EINTR, EAGAIN), and the negative
\* values it returns for them and for EBUSY.
OtherErrnos == {4, 11}
NegReturns == {-EBUSY} \cup {-e : e \in OtherErrnos}

\* A faulty submit_with_context that repeats the call for no error.
submit_never_repeats(r) == FALSE

\* submit_with_context, on a negative return r: the call is repeated for
\* -EBUSY, and for no other value.
submit_repeats(r) == r = -EBUSY

\* submit_with_context, on another negative return r: the OS error that
\* SubmitError carries, io::Error::from_raw_os_error(-ret).
submit_errno(r) == -r

\* submit_with_context: io_uring_submit reports EBUSY, the call is repeated.
Flush_busy ==
    /\ UNCHANGED entries
    /\ pc = "flush"
    /\ \E r \in NegReturns : submit_repeats(r)
    /\ busy < MaxBusy
    /\ busy' = busy + 1
    /\ ret' = NoRet /\ UNCHANGED <<state, sq, inflight, cq, handles, pc, cont, arg, target, w>>

\* submit_with_context repeats itself by a call in return position
\* (`return if ret == -libc::EBUSY { self.submit_with_context(context) }`), and
\* busy counts the calls nested so far; MaxBusy stands for the number the
\* stack holds.  On one more EBUSY a build that turns the call into a jump
\* goes round again, with nothing changed.
Flush_busy_jump ==
    /\ pc = "flush"
    /\ \E r \in NegReturns : submit_repeats(r)
    /\ busy = MaxBusy
    /\ UNCHANGED vars

\* On one more EBUSY a build that keeps the call (no optimisation) overflows
\* the stack: the process is aborted inside the call, which never returns.
Flush_busy_overflow ==
    /\ pc = "flush"
    /\ \E r \in NegReturns : submit_repeats(r)
    /\ busy = MaxBusy
    /\ pc' = "aborted"
    /\ ret' = Ret("abort", 0, 0, "stack overflow", 0)
    /\ UNCHANGED <<entries, state, sq, inflight, cq, handles, cont, arg, target, busy, w>>

\* submit_with_context: io_uring_submit fails with another error.
Flush_err ==
    /\ UNCHANGED entries
    /\ pc = "flush"
    /\ busy' = 0
    /\ cont' = ""
    /\ arg' = NoArg
    /\ UNCHANGED <<sq, inflight, cq>>
    /\ \E r \in NegReturns :
          /\ ~submit_repeats(r)
          /\ CASE cont = "submit" ->
                    /\ ret' = Ret("submit", 0, submit_errno(r), "SubmitError", 0)
                    /\ pc' = "idle"
                    /\ UNCHANGED <<state, handles, target, w>>
               [] cont = "prepare" ->
                    /\ ret' = Ret("prepare", 0, submit_errno(r), "SubmitError", 0)
                    /\ pc' = "idle"
                    /\ UNCHANGED <<state, handles, target, w>>
               [] cont = "wait" ->
                    WaitReturn(target, state,
                               [ErrOut("SubmitError") EXCEPT !.res = submit_errno(r)], w)

\* submit_with_context: io_uring_submit returns n >= 0, the number of prepared
\* entries the kernel took (the first n of the submission queue).
Flush_take(n) ==
    /\ UNCHANGED entries
    /\ pc = "flush"
    /\ LET s1 == submit_with_context(state, n)
           taken == SubSeq(sq, 1, n)
           rest == SubSeq(sq, n + 1, Len(sq))
           hs1 == Flushed(handles, taken)
       IN  /\ inflight' = inflight \o taken
           /\ cq' = cq
           /\ busy' = 0
           /\ cont' = ""
           /\ arg' = NoArg
           /\ CASE cont = "submit" ->
                     /\ state' = s1
                     /\ sq' = rest
                     /\ handles' = hs1
                     /\ ret' = Ret("submit", 0, n, "", 0)
                     /\ pc' = "idle"
                     /\ UNCHANGED <<target, w>>
                [] cont = "prepare" ->
                     /\ pc' = "idle"
                     /\ UNCHANGED <<target, w>>
                     /\ IF sqe_retry(rest, entries)
                        THEN LET p == PrepareEffect(s1, rest, arg, 1)
                             IN  /\ state' = p.state
                                 /\ sq' = p.sq
                                 /\ handles' = MapInsert(hs1, p.ret.id, p.handle)
                                 /\ ret' = p.ret
                        ELSE /\ state' = s1
                             /\ sq' = rest
                             /\ handles' = hs1
                             /\ ret' = Ret("prepare", 0, 0, "GetSqeError", 1)
                [] cont = "wait" ->
                     /\ state' = s1
                     /\ sq' = rest
                     /\ handles' = hs1
                     /\ pc' = "wait2"
                     /\ w' = [w EXCEPT !.flushes = @ + 1]
                     /\ ret' = NoRet /\ UNCHANGED <<target>>

\* submit_with_context: io_uring_submit takes the prepared entries, all of
\* them.
Flush_ok == Flush_take(Len(sq))

\* submit_with_context: io_uring_submit takes fewer entries than were
\* prepared, or none, and reports that number.
Flush_part == \E n \in 0..(Len(sq) - 1) : Flush_take(n)

\* Handle::wait of src/src/handle.rs (typed handles).
Handle_wait(id) ==
    /\ UNCHANGED entries
    /\ pc = "idle"
    /\ id \in DOMAIN handles
    /\ handles[id].st = "live"
    /\ handles[id].flavour = "typed"
    /\ UNCHANGED <<sq, inflight, cq, cont, arg, busy>>
    /\ IF id \notin DOMAIN state.map
       THEN WaitReturn(id, state, ErrOut("panic"), [NoWait EXCEPT !.direct = TRUE])
       ELSE IF state.map[id].status = "Completed"
            THEN WaitReturn(id, [state EXCEPT !.map = MapRemove(@, id)],
                            TypedWaitResult(state.map[id], handles[id].kind),
                            [NoWait EXCEPT !.direct = TRUE])
            ELSE /\ w' = [NoWait EXCEPT !.unsent = id \in SqIds(sq)]
                 /\ pc' = "wait1"
                 /\ target' = id
                 /\ ret' = NoRet /\ UNCHANGED <<state, handles>>

\* Handle::wait of src/src/lib.rs (the handles of Uring::read).
LibHandle_wait(id) ==
    /\ UNCHANGED entries
    /\ pc = "idle"
    /\ id \in DOMAIN handles
    /\ handles[id].st = "live"
    /\ handles[id].flavour = "lib"
    /\ w' = [NoWait EXCEPT !.unsent = id \in SqIds(sq)]
    /\ pc' = "wait1"
    /\ target' = id
    /\ ret' = NoRet /\ UNCHANGED <<state, sq, inflight, cq, handles, cont, arg, busy>>

\* History: the completion of id was drained by a wait on another identity.
Absorbed(hs, id) ==
    IF id \in DOMAIN hs /\ hs[id].st = "live"
    THEN [hs EXCEPT ![id].absorbed = TRUE]
    ELSE hs

\* A faulty wait_single_cqe that goes to io_uring_wait_cqe whatever the
\* outstanding count.
wait_single_cqe_always_waits(s) == FALSE

\* wait_single_cqe, its first test: with nothing outstanding it returns
\* Ok(None) before io_uring_wait_cqe is reached.
wait_single_cqe_none(s) == s.submitted_count = 0

\* Uring::wait_for: one turn of either loop (wait_single_cqe and the test on
\* the identity it returns), and what follows the loop when it ends.
Wait_step ==
    /\ UNCHANGED entries
    /\ pc \in {"wait1", "wait2"}
    /\ UNCHANGED <<sq, inflight, arg>>
    /\ IF wait_single_cqe_none(state)
       THEN /\ cq' = cq
            /\ IF pc = "wait1"
               THEN /\ pc' = "flush"
                    /\ cont' = "wait"
                    /\ busy' = 0
                    /\ ret' = NoRet /\ UNCHANGED <<state, handles, target, w>>
               ELSE /\ UNCHANGED <<cont, busy>>
                    /\ WaitReturn(target, state, ErrOut(NotFound), w)
       ELSE /\ cq # <<>>
            /\ LET r == handle_cqe(state, Head(cq))
                   w1 == [w EXCEPT !.drained = @ + 1,
                                   !.seen = @ + (IF r.id = target THEN 1 ELSE 0),
                                   !.discarded = @ + (IF r.discarded THEN 1 ELSE 0)]
               IN  /\ cq' = Tail(cq)
                   /\ UNCHANGED <<cont, busy>>
                   /\ IF ~r.ok
                      THEN WaitReturn(target, r.state, ErrOut(NoEntry), w1)
                      ELSE IF r.id = target
                           THEN IF target \notin DOMAIN r.state.map
                                THEN WaitReturn(target, r.state, ErrOut("panic"), w1)
                                ELSE WaitReturn(target,
                                        [r.state EXCEPT !.map = MapRemove(@, target)],
                                        IF handles[target].flavour = "lib"
                                        THEN LibWaitResult(r.state.map[target])
                                        ELSE TypedWaitResult(r.state.map[target],
                                                             handles[target].kind),
                                        w1)
                           ELSE /\ state' = r.state
                                /\ handles' = Absorbed(handles, r.id)
                                /\ w' = w1
                                /\ ret' = NoRet /\ UNCHANGED <<pc, target>>

\* wait_single_cqe: io_uring_wait_cqe fails while the caller blocks in it.
Wait_cqe_error ==
    /\ UNCHANGED entries
    /\ pc \in {"wait1", "wait2"}
    /\ ~wait_single_cqe_none(state)
    /\ cq = <<>>
    /\ WaitReturn(target, state, ErrOut("WaitCqeError"), w)
    /\ UNCHANGED <<sq, inflight, cq, cont, arg, busy>>

\* Handle::observed.
Observed(id) ==
    /\ UNCHANGED entries
    /\ pc = "idle"
    /\ id \in DOMAIN handles
    /\ handles[id].st = "live"
    /\ handles[id].flavour = "typed"
    /\ ret' = Ret("observed", id, IF Handle_observed(state.map, id) THEN 1 ELSE 0, "", 0)
    /\ UNCHANGED <<state, sq, inflight, cq, handles, pc, cont, arg, target, busy, w>>

\* A handle goes out of scope without a wait.
Drop_handle(id) ==
    /\ UNCHANGED entries
    /\ pc = "idle"
    /\ id \in DOMAIN handles
    /\ handles[id].st = "live"
    /\ state' = [state EXCEPT !.map = Handle_drop(@, id)]
    /\ handles' = [handles EXCEPT ![id] = Gone("gone")]
    /\ ret' = Ret("drop", id, 0, "", 0)
    /\ UNCHANGED <<sq, inflight, cq, pc, cont, arg, target, busy, w>>

\* Drop for Uring begins; the handles borrow the ring, so none is alive.
Uring_drop ==
    /\ UNCHANGED entries
    /\ pc = "idle"
    /\ \A id \in DOMAIN handles : handles[id].st # "live"
    /\ pc' = "teardown"
    /\ ret' = Ret("teardown", 0, 0, "", 0)
    /\ UNCHANGED <<state, sq, inflight, cq, handles, cont, arg, target, busy, w>>

\* Drop for Uring: one turn of `while let Ok(Some(_)) = wait_single_cqe`, and
\* io_uring_queue_exit when the loop ends.
Teardown_step ==
    /\ UNCHANGED entries
    /\ pc = "teardown"
    /\ ret' = NoRet /\ UNCHANGED <<sq, inflight, handles, cont, arg, target, busy>>
    /\ IF wait_single_cqe_none(state)
       THEN /\ pc' = "released"
            /\ UNCHANGED <<state, cq, w>>
       ELSE /\ cq # <<>>
            /\ LET r == handle_cqe(state, Head(cq))
               IN  /\ cq' = Tail(cq)
                   /\ state' = r.state
                   /\ w' = [w EXCEPT !.drained = @ + 1,
                                     !.discarded = @ + (IF r.discarded THEN 1 ELSE 0)]
                   /\ pc' = IF r.ok THEN "teardown" ELSE "released"

\* Drop for Uring: io_uring_wait_cqe fails, the loop ends.
Teardown_cqe_error ==
    /\ UNCHANGED entries
    /\ pc = "teardown"
    /\ ~wait_single_cqe_none(state)
    /\ cq = <<>>
    /\ pc' = "released"
    /\ ret' = NoRet /\ UNCHANGED <<state, sq, inflight, cq, handles, cont, arg, target, busy, w>>

\* History: the kernel finished the entry of a live handle with result code.
Finished(hs, id, code) ==
    IF id \in DOMAIN hs /\ hs[id].st = "live"
    THEN [hs EXCEPT ![id].done = TRUE, ![id].kres = code]
    ELSE hs

\* The kernel finishes entry i of those it executes, with result code.  The
\* caller sees the completion queue only inside wait_single_cqe (the loops of
\* wait_for and of Drop for Uring), so the completions are posted while the
\* caller is in one of these loops: a completion posted earlier is, to the
\* caller, one posted as the loop is entered.  Any number of them may be
\* posted before the caller takes the next one.
Kernel_complete(i, code) ==
    /\ UNCHANGED entries
    /\ pc \in {"wait1", "wait2", "teardown"}
    /\ i \in 1..Len(inflight)
    /\ CanComplete(inflight, i)
    /\ LET e == inflight[i]
       IN  /\ inflight' = RemoveAt(inflight, i)
           /\ cq' = IF PostsCqe(e, code)
                    THEN Append(cq, [id |-> e.id, res |-> code])
                    ELSE cq
           /\ handles' = Finished(handles, e.id, code)
    /\ ret' = NoRet /\ UNCHANGED <<state, sq, pc, cont, arg, target, busy, w>>

\* A request of the typed interface: the kind, its buffer, and the flags of
\* the Sqe (drain, skip_cqe_on_success).
Req(kind, buf, drain, skip) == [kind |-> kind, buf |-> buf, drain |-> drain, skip |-> skip]

\* The requests a caller makes besides the reads of Uring::read: writes
\* through the typed interface, without flags.
TypedRequests ==
    {Req("Write", "b2", FALSE, FALSE)}

\* The steps of a caller that makes at most MaxOps prepares, and of the
\* kernel.
Next ==
    \/ state.id_gen < MaxOps /\ \E buf \in {"b1"} : Uring_read(buf)
    \/ state.id_gen < MaxOps /\
           \E r \in TypedRequests : Uring_prepare(r.kind, r.buf, r.drain, r.skip)
    \/ Uring_submit
    \/ Flush_busy
    \/ Flush_err
    \/ Flush_ok
    \/ \E id \in DOMAIN handles : Handle_wait(id)
    \/ \E id \in DOMAIN handles : LibHandle_wait(id)
    \/ Wait_step
    \/ Wait_cqe_error
    \/ \E id \in DOMAIN handles : Observed(id)
    \/ \E id \in DOMAIN handles : Drop_handle(id)
    \/ Uring_drop
    \/ Teardown_step
    \/ Teardown_cqe_error
    \/ \E i \in 1..Len(inflight) : \E code \in Codes : Kernel_complete(i, code)

Spec == Init /\ [][Next]_vars

\* The program of Next with a kernel that may take only part of what was
\* prepared when it is asked to flush.
NextPartial ==
    \/ Next
    \/ Flush_part

SpecPartial == Init /\ [][NextPartial]_vars

\* The program of Next with a kernel that may report EBUSY more often than
\* the stack holds calls of submit_with_context, in either kind of build.
NextBusy ==
    \/ Next
    \/ Flush_busy_jump
    \/ Flush_busy_overflow

SpecBusy == Init /\ [][NextBusy]_vars

----------------------------------------------------------------------------
\* The program of tests/fsync.rs (test_barrier_fsync): writes, and a sync
\* with the drain flag, through the typed interface.
BarrierRequests ==
    {Req("Write", "b2", FALSE, FALSE), Req("Fdatasync", NoBuf, TRUE, FALSE)}

NextBarrier ==
    \/ state.id_gen < MaxOps /\
           \E r \in BarrierRequests : Uring_prepare(r.kind, r.buf, r.drain, r.skip)
    \/ Uring_submit
    \/ Flush_busy
    \/ Flush_err
    \/ Flush_ok
    \/ \E id \in DOMAIN handles : Handle_wait(id)
    \/ Wait_step
    \/ Wait_cqe_error
    \/ \E id \in DOMAIN handles : Observed(id)
    \/ \E id \in DOMAIN handles : Drop_handle(id)
    \/ \E i \in 1..Len(inflight) : \E code \in Codes : Kernel_complete(i, code)

InitBarrier == Uring_new(BarrierDepth)

SpecBarrier == InitBarrier /\ [][NextBarrier]_vars

\* A program of writes through the typed interface, with and without the
\* flag of Sqe::skip_cqe_on_success, and the teardown of the ring.
SkipRequests ==
    {Req("Write", "b2", FALSE, FALSE), Req("Write", "b2", FALSE, TRUE)}

NextSkip ==
    \/ state.id_gen < MaxOps /\
           \E r \in SkipRequests : Uring_prepare(r.kind, r.buf, r.drain, r.skip)
    \/ Uring_submit
    \/ Flush_busy
    \/ Flush_err
    \/ Flush_ok
    \/ \E id \in DOMAIN handles : Handle_wait(id)
    \/ Wait_step
    \/ Wait_cqe_error
    \/ \E id \in DOMAIN handles : Drop_handle(id)
    \/ Uring_drop
    \/ Teardown_step
    \/ Teardown_cqe_error
    \/ \E i \in 1..Len(inflight) : \E code \in Codes : Kernel_complete(i, code)

SpecSkip == Init /\ [][NextSkip]_vars

\* The kernel eventually finishes an operation it executes.
Kernel_progress == \E i \in 1..Len(inflight) : \E code \in Codes : Kernel_complete(i, code)

\* The program of Next with at most LiveOps prepares.
NextLive ==
    \/ state.id_gen < LiveOps /\ \E buf \in {"b1"} : Uring_read(buf)
    \/ state.id_gen < LiveOps /\
           \E r \in TypedRequests : Uring_prepare(r.kind, r.buf, r.drain, r.skip)
    \/ Uring_submit
    \/ Flush_busy
    \/ Flush_err
    \/ Flush_ok
    \/ \E id \in DOMAIN handles : Handle_wait(id)
    \/ \E id \in DOMAIN handles : LibHandle_wait(id)
    \/ Wait_step
    \/ Wait_cqe_error
    \/ \E id \in DOMAIN handles : Observed(id)
    \/ \E id \in DOMAIN handles : Drop_handle(id)
    \/ Uring_drop
    \/ Teardown_step
    \/ Teardown_cqe_error
    \/ Kernel_progress

\* The caller's thread runs (it does not stop inside a call), io_uring_submit
\* returns, and the kernel delivers a completion for every flushed operation.
LiveSpec ==
    /\ Init /\ [][NextLive]_vars
    /\ WF_vars(Wait_step)
    /\ WF_vars(Flush_ok \/ Flush_err)
    /\ WF_vars(Kernel_progress)

----------------------------------------------------------------------------
\* Decoding of a completed result (src/src/result.rs, and UringResult of
\* src/src/lib.rs), as functions of the raw code, with the raw code a
\* two's-complement integer of ResBits bits.
I32Min == -(2 ^ (ResBits - 1))
I32Max == 2 ^ (ResBits - 1) - 1
RawCodes == I32Min..I32Max

\* Overflow checks are on in a debug build and off in a release build.
Builds == {"debug", "release"}

Unit == "unit"
IoOk(v) == [tag |-> "Ok", v |-> v, errno |-> 0]
IoErr(n) == [tag |-> "Err", v |-> Unit, errno |-> n]
IoPanic == [tag |-> "panic", v |-> Unit, errno |-> 0]

\* -res on i32: the negation of the least value overflows (a panic with
\* overflow checks, the least value again without).
from_raw_os_error_neg(res, build) ==
    IF res = I32Min
    THEN IF build = "debug" THEN IoPanic ELSE IoErr(I32Min)
    ELSE IoErr(-res)

\* macro try_io.
try_io(res, e, build) ==
    IF res < 0 THEN from_raw_os_error_neg(res, build) ELSE IoOk(e)

\* IoResult::as_io_result of the result types: Output is usize for the
\* kinds that own a buffer, () for the others.
as_io_result(res, kind, build) ==
    IF kind \in BufKinds THEN try_io(res, res, build) ELSE try_io(res, Unit, build)

\* BufIoResult::into_buf.
into_buf(buf) == buf

\* UringResult::as_io_error of src/src/lib.rs.
as_io_error(res, build) ==
    IF res < 0 THEN IoOk(Unit) ELSE from_raw_os_error_neg(res, build)

\* UringResult::into_buf of src/src/lib.rs: kind.try_into().ok().
UringResult_into_buf(kind, buf) ==
    IF kind \in BufKinds THEN buf ELSE NoBuf

\* A caller decodes a completed result of a typed handle.
Decode_typed(res, kind, buf, build) ==
    /\ pc = "idle"
    /\ LET r == try_into(res, kind, buf, kind)
       IN  ret' = [op |-> "decode", flavour |-> "typed", res |-> res, kind |-> kind,
                   buf |-> buf, build |-> build,
                   io |-> as_io_result(r.res, r.kind, build),
                   back |-> IF kind \in BufKinds THEN into_buf(r.buf) ELSE NoBuf]
    /\ UNCHANGED <<entries, state, sq, inflight, cq, handles, pc, cont, arg, target, busy, w>>

\* A caller decodes the UringResult of a handle of Uring::read.
Decode_lib(res, kind, buf, build) ==
    /\ pc = "idle"
    /\ ret' = [op |-> "decode", flavour |-> "lib", res |-> res, kind |-> kind,
               buf |-> buf, build |-> build,
               io |-> as_io_error(res, build),
               back |-> UringResult_into_buf(kind, buf)]
    /\ UNCHANGED <<entries, state, sq, inflight, cq, handles, pc, cont, arg, target, busy, w>>

\* The results a caller may hold: any kind with its descriptor, any code.
Descriptors ==
    {[kind |-> k, buf |-> b] : k \in BufKinds, b \in {"b1", "b2"}}
        \cup {[kind |-> k, buf |-> NoBuf] : k \in SyncKinds}

NextDecode ==
    \/ \E res \in RawCodes, d \in Descriptors, build \in Builds :
           Decode_typed(res, d.kind, d.buf, build)
    \/ \E res \in RawCodes, build \in Builds : Decode_lib(res, "Read", "b1", build)

SpecDecode == Init /\ [][NextDecode]_vars

----------------------------------------------------------------------------
\* The conversion (res, kind).try_into() to the result type of kind K, applied
\* to a pair alone: the ring plays no part in it, and it is applied while the
\* ring holds nothing.
Decode_as(res, kind, buf, K) ==
    /\ pc = "idle"
    /\ state = UringState_new
    /\ ret' = [op |-> "try_into", res |-> res, kind |-> kind, buf |-> buf, K |-> K,
               out |-> try_into(res, kind, buf, K)]
    /\ UNCHANGED <<entries, state, sq, inflight, cq, handles, pc, cont, arg, target, busy, w>>

\* Requests of every kind through the typed interface (each Sqe<..Data> has
\* its handle type and its UringOperationKind), without flags.
KindRequests ==
    {Req(d.kind, d.buf, FALSE, FALSE) : d \in {x \in Descriptors : x.buf # "b1"}}

\* A program of typed requests of every kind, and conversions of pairs.
NextKinds ==
    \/ state.id_gen < LiveOps /\
           \E r \in KindRequests : Uring_prepare(r.kind, r.buf, r.drain, r.skip)
    \/ Uring_submit
    \/ Flush_busy
    \/ Flush_err
    \/ Flush_ok
    \/ \E id \in DOMAIN handles : Handle_wait(id)
    \/ Wait_step
    \/ Wait_cqe_error
    \/ \E id \in DOMAIN handles : Drop_handle(id)
    \/ \E i \in 1..Len(inflight) : \E code \in Codes : Kernel_complete(i, code)
    \/ \E res \in Codes, d \in Descriptors, K \in UringOperationKind :
           Decode_as(res, d.kind, d.buf, K)

SpecKinds == Init /\ [][NextKinds]_vars

----------------------------------------------------------------------------
\* Vocabulary of the properties.

\* The wait that just returned failed in the kernel (io_uring_submit or
\* io_uring_wait_cqe reported an error), not in the engine.
KernelFailed == ret.err \in {"SubmitError", "WaitCqeError"}

\* What the kernel reported for the identity of the handle that was waited
\* on, with the descriptor given to the prepare that created the handle.
OwnResult == OkOut(ret.h.kres, ret.h.kind, ret.h.buf)

WaitReturned == ret.op = "wait"

----------------------------------------------------------------------------
\* C1 (correlation integrity): every wait that the kernel did not fail
\* returns the result code the kernel reported for the handle's own identity
\* together with the descriptor passed to its prepare.
C1_CorrelationIntegrity ==
    (WaitReturned /\ ~KernelFailed) => (ret.h.done /\ ret.out = OwnResult)

\* C1 restricted to the typed handles of src/src/handle.rs.
C1_TypedHandles ==
    (WaitReturned /\ ~KernelFailed /\ ret.h.flavour = "typed")
        => (ret.h.done /\ ret.out = OwnResult)

C1_TypedWitness ==
    /\ WaitReturned /\ ret.h.flavour = "typed" /\ ret.out = OwnResult
    /\ ret.w.drained >= 2

\* C2 (absorb and retain): when the completion of A was drained by a wait on
\* another operation, the wait on A's handle returns A's result, without an
\* InternalError and without entering the blocking loop.
C2_AbsorbAndRetain ==
    (WaitReturned /\ ret.h.absorbed /\ ~KernelFailed)
        => (ret.out = OwnResult /\ ret.w.direct)

\* C2 restricted to the typed handles of src/src/handle.rs.
C2_TypedHandles ==
    (WaitReturned /\ ret.h.absorbed /\ ret.h.flavour = "typed")
        => (ret.out = OwnResult /\ ret.w.direct)

C2_TypedWitness ==
    /\ WaitReturned /\ ret.h.absorbed /\ ret.h.flavour = "typed"
    /\ ret.out = OwnResult /\ state.submitted_count = 0

----------------------------------------------------------------------------
\* C3 (implicit flush in wait): a wait on a handle whose entry is still
\* prepared and unsent when wait is called, and which the kernel does not
\* fail, performs exactly one implicit flush, then drains the target's
\* completion once and returns the target's own result.
C3_ImplicitFlush ==
    (WaitReturned /\ ret.w.unsent /\ ~KernelFailed)
        => (ret.out = OwnResult /\ ret.w.flushes = 1 /\ ret.w.seen = 1)

C3_Witness ==
    /\ WaitReturned /\ ret.w.unsent
    /\ ret.out = OwnResult /\ ret.w.flushes = 1 /\ ret.w.seen = 1

----------------------------------------------------------------------------
\* The identities whose entries are in the ring (prepared, executing, or
\* completed and not yet drained).
InRing == SqIds(sq) \cup SqIds(inflight) \cup SqIds(cq)

\* The step drains the completion of an identity whose handle was dropped.
DrainsCancelled ==
    /\ pc \in {"wait1", "wait2", "teardown"}
    /\ state.submitted_count > 0
    /\ cq # <<>> /\ cq' = Tail(cq)
    /\ Head(cq).id \in DOMAIN state.map
    /\ state.map[Head(cq).id].status = "Cancelled"

\* C4 (cancellation discard): the registry never holds a Completed (or
\* Ongoing) entry for an identity whose handle is gone, a Cancelled entry
\* is kept only while its operation is still in the ring, and the step that
\* drains the completion of a Cancelled identity removes the entry and
\* raises no error.
C4_CancellationDiscard ==
    /\ [](\A id \in DOMAIN state.map :
            handles[id].st # "live" =>
                (state.map[id].status = "Cancelled" /\ id \in InRing))
    /\ [][DrainsCancelled =>
            /\ Head(cq).id \notin DOMAIN state'.map
            /\ ret'.err = ""
            /\ pc' = pc]_vars

C4_Witness ==
    /\ WaitReturned /\ ret.w.discarded >= 1 /\ ret.out = OwnResult
    /\ state.map = EmptyMap

----------------------------------------------------------------------------
\* C5 (backpressure): a prepare that the kernel's flush does not fail
\* succeeds, also when the submission queue was full: then exactly one
\* implicit flush sent the prepared entries, as many as the queue has slots,
\* and the new entry is
\* the only one prepared and unsent.
C5_Backpressure ==
    /\ Len(sq) <= entries
    /\ (ret.op = "prepare" /\ ret.err # "SubmitError") =>
          /\ ret.err = ""
          /\ ret.id \in DOMAIN state.map
          /\ state.map[ret.id].status = "Ongoing"
          /\ sq # <<>>
          /\ sq[Len(sq)].id = ret.id
          /\ ret.fl \in {0, 1}
          /\ ret.fl = 1 => (Len(sq) = 1 /\ state.submitted_count >= entries)

C5_Witness ==
    /\ ret.op = "prepare" /\ ret.err = "" /\ ret.fl = 1
    /\ ret.id = entries + 1
    /\ Len(inflight) = entries

----------------------------------------------------------------------------
\* C7 (teardown drains cleanly): the kernel ring is released only when the
\* outstanding count is 0.
C7_TeardownDrains ==
    pc = "released" => state.submitted_count = 0

----------------------------------------------------------------------------
\* The step is the return of a successful Uring::submit.
SubmitReturns ==
    /\ pc = "flush" /\ cont = "submit"
    /\ ret'.op = "submit" /\ ret'.err = ""

----------------------------------------------------------------------------
\* The step assigns an identity: a prepare returns a handle.
Assigns == ret'.op = "prepare" /\ ret'.err = ""

\* C10 (identities): the identities assigned so far are exactly 1..id_gen,
\* 0 is never in the registry, the generator moves only when a prepare
\* succeeds and then by exactly one, and the identity assigned is the new
\* value of the generator, which no handle ever had.
C10_Identities ==
    /\ [](/\ DOMAIN handles = 1..state.id_gen
          /\ DOMAIN state.map \subseteq 1..state.id_gen
          /\ 0 \notin DOMAIN state.map)
    /\ [][/\ Assigns <=> state'.id_gen # state.id_gen
          /\ Assigns =>
                /\ state'.id_gen = state.id_gen + 1
                /\ ret'.id = state'.id_gen
                /\ ret'.id \notin DOMAIN handles
                /\ ret'.id \notin DOMAIN state.map]_vars

C10_Witness ==
    /\ ret.op = "prepare" /\ ret.err = "" /\ ret.id = 2
    /\ 1 \notin DOMAIN state.map

----------------------------------------------------------------------------
\* A wait on identity x is in progress.
Waiting(x) == pc \in {"wait1", "wait2", "flush"} /\ target = x

\* How often the completion of the handle's identity was drained: by the
\* wait that just returned, or by an earlier wait on another identity.
TimesObserved == ret.w.seen + (IF ret.h.absorbed THEN 1 ELSE 0)

\* The step drains, inside a wait, the completion of an identity other than
\* the one waited for.
DrainsOther ==
    /\ pc \in {"wait1", "wait2"}
    /\ state.submitted_count > 0
    /\ cq # <<>> /\ cq' = Tail(cq)
    /\ Head(cq).id # target

----------------------------------------------------------------------------
\* C8 (ordering barrier): once the wait on a drain-flagged operation has
\* returned its result, every handle still held of an operation flushed
\* ahead of it in the same batch is observed, observed() on it returns true
\* and its wait returns its own result at once.
C8_OrderingBarrier ==
    /\ \A id \in DOMAIN handles :
          (handles[id].st = "live" /\ handles[id].barrier)
              => (id \in DOMAIN state.map /\ state.map[id].status = "Completed")
    /\ (ret.op = "observed" /\ handles[ret.id].barrier) => ret.n = 1
    /\ (WaitReturned /\ ret.h.barrier) => (ret.out = OwnResult /\ ret.w.direct)

\* Two writes behind the barrier: the wait on the first returned, and the
\* second is still held and observed.
C8_Witness ==
    /\ WaitReturned /\ ret.h.barrier /\ ret.h.kind = "Write"
    /\ ret.out = OwnResult
    /\ \E id \in DOMAIN handles :
          /\ handles[id].st = "live" /\ handles[id].barrier
          /\ handles[id].kind = "Write"
          /\ state.map[id].status = "Completed"

----------------------------------------------------------------------------
\* C11 (observed is a read-only probe): observed() returns true exactly
\* when the entry of the handle's identity is Completed, false when it is
\* Ongoing or absent; the registry, the outstanding count, the generator
\* and the ring are as before, and the handle is still held.
C11_ObservedReadOnly ==
    [][ret'.op = "observed" =>
        LET id == ret'.id
        IN  /\ ret'.n \in {0, 1}
            /\ ret'.n = 1 <=>
                  (id \in DOMAIN state.map /\ state.map[id].status = "Completed")
            /\ UNCHANGED <<state, sq, inflight, cq, handles, pc>>
            /\ handles'[id].st = "live"]_vars

\* observed() returned true for a handle that can still be waited on.
C11_Witness ==
    /\ ret.op = "observed" /\ ret.n = 1
    /\ handles[ret.id].st = "live"
    /\ state.map[ret.id].status = "Completed"

----------------------------------------------------------------------------
\* C12 (InternalError is unreachable): no call returns an InternalError
\* (no entry for a drained identity, target not found by wait_for, entry
\* not Completed after wait_for), nor reaches an unreachable!() of
\* src/src/handle.rs.
C12_NoInternalError ==
    ret.err \notin InternalError \cup {"panic"}

\* C12 for the conditions other than "wait_for could not find the
\* operation".
C12_OtherConditions ==
    ret.err \notin (InternalError \ {NotFound}) \cup {"panic"}

----------------------------------------------------------------------------
\* The events of identity id in a step.
Removed(id) == id \in DOMAIN state.map /\ id \notin DOMAIN state'.map

\* wait hands the result of id to the caller.
Delivered(id) == ret'.op = "wait" /\ ret'.id = id /\ ret'.out.tag = "Ok"

\* The result of id is discarded: its completion is drained after the handle
\* was dropped, or the handle goes while the recorded result was not handed
\* over.
Discarded(id) ==
    \/ /\ pc \in {"wait1", "wait2", "teardown"}
       /\ state.submitted_count > 0
       /\ cq # <<>> /\ cq' = Tail(cq) /\ Head(cq).id = id
       /\ id \in DOMAIN state.map /\ state.map[id].status = "Cancelled"
    \/ /\ id \in DOMAIN handles /\ handles[id].st = "live"
       /\ handles'[id].st = "gone"
       /\ id \in DOMAIN state.map /\ state.map[id].status = "Completed"
       /\ ~Delivered(id)

----------------------------------------------------------------------------
\* What the decoding of raw code r of a result of kind k must report.
Decoded(r, k) ==
    IF r < 0 THEN IoErr(-r)
    ELSE IF k \in BufKinds THEN IoOk(r) ELSE IoOk(Unit)

\* C14 (result decoding by sign): a completed result with raw code r
\* reports the OS error -r when r < 0 and success when r >= 0 (the byte
\* count r for Read, Write and Madvise, nothing for Fsync and Fdatasync),
\* and for the kinds that own a buffer the buffer is handed back whatever
\* the sign of r.  Stated for every raw code but the least one, whose
\* negation overflows.
C14_DecodingBySign ==
    (ret.op = "decode" /\ ret.res # I32Min) =>
        /\ ret.io = Decoded(ret.res, ret.kind)
        /\ ret.kind \in BufKinds => ret.back = ret.buf

\* C14 for the result types of src/src/result.rs.
C14_TypedResults ==
    (ret.op = "decode" /\ ret.flavour = "typed" /\ ret.res # I32Min) =>
        /\ ret.io = Decoded(ret.res, ret.kind)
        /\ ret.kind \in BufKinds => ret.back = ret.buf

\* C14 for UringResult of src/src/lib.rs: only the buffer is as claimed.
C14_LibBuffer ==
    (ret.op = "decode" /\ ret.flavour = "lib") => ret.back = ret.buf

----------------------------------------------------------------------------
\* The kinds of step that touch the entry of identity id.
Created(id) == id \notin DOMAIN state.map /\ id \in DOMAIN state'.map

Changed(id) ==
    id \in DOMAIN state.map /\ id \in DOMAIN state'.map /\ state'.map[id] # state.map[id]

\* The step drains the completion of id (wait_for or Drop for Uring).
DrainOf(id) ==
    /\ pc \in {"wait1", "wait2", "teardown"}
    /\ state.submitted_count > 0
    /\ cq # <<>> /\ cq' = Tail(cq) /\ Head(cq).id = id

\* The handle of id goes in the step: dropped, or consumed by a wait.
HandleGoes(id) ==
    id \in DOMAIN handles /\ handles[id].st = "live" /\ handles'[id].st = "gone"

\* prepare creates the entry of id, Ongoing.
CreatedByPrepare(id) ==
    /\ ret'.op = "prepare" /\ ret'.err = "" /\ ret'.id = id
    /\ state'.map[id].status = "Ongoing"

\* The draining step records the result of id: Ongoing to Completed.
CompletedByDrain(id) ==
    /\ DrainOf(id)
    /\ state.map[id].status = "Ongoing"
    /\ state'.map[id] = [state.map[id] EXCEPT !.status = "Completed", !.res = Head(cq).res]

\* Drop for Handle marks the entry of id: Ongoing to Cancelled.
CancelledByDrop(id) ==
    /\ HandleGoes(id)
    /\ state.map[id].status = "Ongoing"
    /\ state'.map[id] = [state.map[id] EXCEPT !.status = "Cancelled"]

\* C15 as stated (registry mutation paths): an entry is created only by
\* prepare, changed only by the draining step (Ongoing to Completed), and
\* removed only by a wait that consumes it or by the draining step that
\* meets it Cancelled.
C15_MutationPaths ==
    [][\A id \in 1..MaxOps :
        /\ Created(id) => CreatedByPrepare(id)
        /\ Changed(id) => CompletedByDrain(id)
        /\ Removed(id) =>
              \/ Delivered(id)
              \/ DrainOf(id) /\ state.map[id].status = "Cancelled"]_vars

\* C15 amended: besides these, Drop for Handle changes an Ongoing entry to
\* Cancelled and removes a Completed entry; nothing else creates, changes
\* or removes an entry.
C15_MutationPathsWithDrop ==
    [][\A id \in 1..MaxOps :
        /\ Created(id) => CreatedByPrepare(id)
        /\ Changed(id) => (CompletedByDrain(id) \/ CancelledByDrop(id))
        /\ Removed(id) =>
              \/ Delivered(id)
              \/ DrainOf(id) /\ state.map[id].status = "Cancelled"
              \/ HandleGoes(id) /\ state.map[id].status = "Completed"]_vars

\* A drop has just marked an Ongoing entry Cancelled, and another entry
\* holds a recorded result.
C15_Witness ==
    /\ ret.op = "drop"
    /\ ret.id \in DOMAIN state.map /\ state.map[ret.id].status = "Cancelled"
    /\ \E id \in DOMAIN state.map : state.map[id].status = "Completed"

----------------------------------------------------------------------------
\* A wait drains the completion at the head of the completion queue.
WaitDrains ==
    /\ pc \in {"wait1", "wait2"}
    /\ state.submitted_count > 0
    /\ cq # <<>> /\ cq' = Tail(cq)

\* The number of completions the wait in progress, or the wait that returns
\* in the step, has drained after the step.
DrainedAfter == IF ret'.op = "wait" THEN ret'.w.drained ELSE w'.drained

\* The entry of the handle was already Completed when the wait that just
\* returned was called: an earlier wait had drained its completion.
CompletedAtCall == WaitReturned /\ ret.h.absorbed

\* C19 (wait stops at the first match): each completion a wait drains
\* lowers the outstanding count by one; the step that drains the completion
\* of the target is the step in which the wait returns, the completions
\* behind it stay in the ring; and the wait on an entry that is already
\* Completed drains nothing, flushes nothing and returns its result.
C19_StopsAtFirstMatch ==
    /\ [](CompletedAtCall =>
            (ret.w.drained = 0 /\ ret.w.flushes = 0 /\ ret.out = OwnResult))
    /\ [][WaitDrains =>
            /\ state'.submitted_count = state.submitted_count - 1
            /\ DrainedAfter = w.drained + 1
            /\ inflight' = inflight /\ sq' = sq
            /\ (Head(cq).id = target) <=> (ret'.op = "wait" /\ ret'.id = target)]_vars

\* C19 for the typed handles of src/src/handle.rs.
C19_TypedHandles ==
    /\ []((CompletedAtCall /\ ret.h.flavour = "typed") =>
            (ret.w.drained = 0 /\ ret.w.flushes = 0 /\ ret.out = OwnResult))
    /\ [][WaitDrains =>
            /\ state'.submitted_count = state.submitted_count - 1
            /\ DrainedAfter = w.drained + 1
            /\ inflight' = inflight /\ sq' = sq
            /\ (Head(cq).id = target) <=> (ret'.op = "wait" /\ ret'.id = target)]_vars

----------------------------------------------------------------------------
\* The step takes one completion from the ring (wait_single_cqe calls
\* handle_cqe), in wait_for or in Drop for Uring.
Drains ==
    /\ pc \in {"wait1", "wait2", "teardown"}
    /\ state.submitted_count > 0
    /\ cq # <<>> /\ cq' = Tail(cq)

\* The entries of the identities other than id are the same before and after.
OthersUnchanged(id) ==
    \A j \in (DOMAIN state.map \cup DOMAIN state'.map) \ {id} :
        /\ j \in DOMAIN state.map
        /\ j \in DOMAIN state'.map
        /\ state'.map[j] = state.map[j]

\* C16 (frame of draining one completion): draining the completion of
\* identity i with code c takes exactly one from the outstanding count,
\* leaves the identity generator and the entry of every other identity
\* unchanged, removes the entry of i if it was Cancelled and records
\* Completed(c) in it otherwise, and returns i: the wait that drained it ends
\* with the result c when i is the identity it waits for, and goes on, with
\* the entry of i Completed(c), when it is not.
C16_DrainFrame ==
    [][Drains =>
        LET i == Head(cq).id
            c == Head(cq).res
        IN  /\ state'.submitted_count = state.submitted_count - 1
            /\ state'.id_gen = state.id_gen
            /\ OthersUnchanged(i)
            /\ i \in DOMAIN state.map
            /\ IF state.map[i].status = "Cancelled"
               THEN i \notin DOMAIN state'.map
               ELSE IF pc # "teardown" /\ i = target
                    THEN /\ ret'.op = "wait" /\ ret'.id = i
                         /\ ret'.out.tag = "Ok" => ret'.out.res = c
                         /\ ret'.err \notin {NoEntry, NotFound}
                    ELSE /\ i \in DOMAIN state'.map
                         /\ state'.map[i] =
                                [state.map[i] EXCEPT !.status = "Completed", !.res = c]
            /\ (pc # "teardown" /\ i # target) => ret'.op # "wait"
    ]_vars

\* A wait has drained a completion it discarded (the entry was Cancelled) and
\* one it recorded for another identity, and goes on.
C16_Witness ==
    /\ pc \in {"wait1", "wait2"}
    /\ w.discarded >= 1
    /\ w.drained >= 2
    /\ \E id \in DOMAIN state.map :
          /\ state.map[id].status = "Completed"
          /\ id \in DOMAIN handles /\ handles[id].st = "live" /\ handles[id].absorbed

----------------------------------------------------------------------------
\* A loop over wait_single_cqe is at its call with nothing outstanding.
NothingOutstanding ==
    pc \in {"wait1", "wait2", "teardown"} /\ state.submitted_count = 0

\* C17 (draining never blocks when nothing is outstanding): with the
\* outstanding count 0, wait_single_cqe returns at once, whatever the ring
\* holds (the caller's next step is enabled with the completion queue empty),
\* it does not reach io_uring_wait_cqe (no completion is taken and no
\* WaitCqeError is returned), and it changes nothing: the count, the identity
\* generator, the rings and the registry are as before, and the loop ends
\* (the first loop of wait_for goes to the flush, the second to the return of
\* wait_for, whose caller then drops its own handle; the loop of Drop for
\* Uring to io_uring_queue_exit).
C17_DrainNeverBlocks ==
    /\ [](NothingOutstanding =>
            /\ cq = <<>>
            /\ pc \in {"wait1", "wait2"} => ENABLED Wait_step
            /\ pc = "teardown" => ENABLED Teardown_step)
    /\ [][NothingOutstanding =>
            /\ cq' = cq /\ inflight' = inflight /\ sq' = sq
            /\ state'.submitted_count = 0
            /\ state'.id_gen = state.id_gen
            /\ ret'.err # "WaitCqeError"
            /\ pc = "wait1" => (pc' = "flush" /\ state' = state /\ handles' = handles)
            /\ pc = "wait2" =>
                  /\ ret'.op = "wait" /\ ret'.id = target /\ ret'.w.drained = w.drained
                  /\ state'.map = Handle_drop(state.map, target)
            /\ pc = "teardown" => (pc' = "released" /\ state' = state /\ handles' = handles)
       ]_vars

\* The first loop of a wait has drained a completion and then found nothing
\* outstanding: wait_single_cqe returned Ok(None) and wait_for is at its flush.
C17_Witness ==
    /\ pc = "flush" /\ cont = "wait"
    /\ state.submitted_count = 0
    /\ w.drained >= 1

----------------------------------------------------------------------------
\* C18 (frame of abandoning a handle): dropping a handle is one step of the
\* caller that is always possible (it waits for nothing); it removes the
\* handle's own entry if it is Completed, marks it Cancelled if it is
\* Ongoing, and does nothing if there is no entry (the drop that ends a
\* successful wait, whose entry the wait consumed); the outstanding count,
\* the identity generator and the entries of the other identities are
\* unchanged, and nothing is flushed or drained: the submission queue, what
\* the kernel executes and the completion queue are as before.
C18_DropFrame ==
    /\ [](pc = "idle" =>
            \A id \in DOMAIN handles : handles[id].st = "live" => ENABLED Drop_handle(id))
    /\ [][ret'.op = "drop" =>
            LET id == ret'.id
            IN  /\ handles[id].st = "live" /\ handles'[id].st = "gone"
                /\ state'.submitted_count = state.submitted_count
                /\ state'.id_gen = state.id_gen
                /\ OthersUnchanged(id)
                /\ sq' = sq /\ inflight' = inflight /\ cq' = cq /\ pc' = pc
                /\ IF id \notin DOMAIN state.map
                   THEN id \notin DOMAIN state'.map
                   ELSE IF state.map[id].status = "Completed"
                        THEN id \notin DOMAIN state'.map
                        ELSE /\ state.map[id].status = "Ongoing"
                             /\ id \in DOMAIN state'.map
                             /\ state'.map[id] = [state.map[id] EXCEPT !.status = "Cancelled"]
       ]_vars
    /\ [][(ret'.op = "wait" /\ ret'.out.tag = "Ok") =>
            /\ ret'.id \notin DOMAIN state'.map
            /\ OthersUnchanged(ret'.id)
       ]_vars

\* A handle whose entry was Completed has just been dropped, its entry is
\* gone, and the entry of a handle dropped earlier, then still Ongoing, is
\* Cancelled with its operation outstanding.
C18_Witness ==
    /\ ret.op = "drop"
    /\ ret.id \notin DOMAIN state.map
    /\ state.submitted_count > 0
    /\ \E j \in DOMAIN state.map :
          state.map[j].status = "Cancelled" /\ handles[j].st = "gone"

----------------------------------------------------------------------------
\* A prepare returns a handle in this step.
PrepareReturns == ret'.op = "prepare" /\ ret'.err = ""

\* What every successful prepare does: the next identity, an Ongoing entry
\* under it, a live handle bound to it, and the other entries, the handles
\* and the completion queue as before.
PrepareAssigns ==
    LET id == ret'.id
    IN  /\ id = state.id_gen + 1
        /\ state'.id_gen = id
        /\ id \notin DOMAIN state.map
        /\ id \in DOMAIN state'.map
        /\ state'.map[id].status = "Ongoing"
        /\ OthersUnchanged(id)
        /\ id \in DOMAIN handles' /\ handles'[id].st = "live"
        /\ cq' = cq
        /\ Len(sq') >= 1 /\ sq'[Len(sq')].id = id

\* The prepare sent nothing to the kernel: the outstanding count and what the
\* kernel executes are as before, and the new entry joins those prepared.
NothingSent ==
    /\ state'.submitted_count = state.submitted_count
    /\ inflight' = inflight
    /\ Len(sq') = Len(sq) + 1
    /\ \A k \in 1..Len(sq) : sq'[k] = sq[k]

----------------------------------------------------------------------------
\* The flush of a prepare (Uring::sqe found no slot) ends in this step.
PrepareFlushEnds == pc = "flush" /\ cont = "prepare" /\ pc' = "idle"

\* The entries the kernel took in this step.
Taken == Len(inflight') - Len(inflight)

\* C21 (GetSqeError only after a flush): a prepare returns GetSqeError only
\* when its first slot request found the submission queue full, the implicit
\* flush returned without error (the outstanding count grew by what the
\* kernel took), and the one retry found the queue still full.  The slot
\* request is retried once, never more: the call returns in the step of the
\* retry, with the new entry if a slot was free and with GetSqeError if not;
\* a flush that fails ends the call with SubmitError and no retry.
C21_GetSqeErrorAfterFlush ==
    /\ [][(ret'.op = "prepare" /\ ret'.err = "GetSqeError") =>
            /\ PrepareFlushEnds
            /\ Len(sq) = entries
            /\ ret'.fl = 1
            /\ state'.submitted_count = state.submitted_count + Taken
            /\ Len(sq') = entries
            /\ state'.id_gen = state.id_gen
       ]_vars
    /\ [][PrepareFlushEnds =>
            /\ ret'.op = "prepare"
            /\ Len(sq) = entries
            /\ \/ ret'.err = "SubmitError" /\ ret'.fl = 0 /\ Taken = 0 /\ sq' = sq
               \/ /\ ret'.fl = 1
                  /\ ret'.err \in {"", "GetSqeError"}
                  /\ (ret'.err = "GetSqeError") <=> (Len(sq) - Taken = entries)
       ]_vars
    /\ [][ret'.op = "prepare" => ret'.fl \in {0, 1}]_vars

\* A prepare has returned GetSqeError: the queue was full, the flush returned
\* with the kernel having taken nothing, and the retry found the queue full.
C21_Witness ==
    /\ ret.op = "prepare" /\ ret.err = "GetSqeError" /\ ret.fl = 1
    /\ Len(sq) = entries
    /\ pc = "idle"

----------------------------------------------------------------------------
\* The OS error carried by the error a call returned.
Errno(r) == IF r.op = "wait" THEN r.out.res ELSE r.n

\* A flush fails in this step with the OS error e.
FlushFails(e) == Flush_err /\ Errno(ret') = e

\* C22 (flush error handling): a busy report of the kernel is never returned
\* to the caller, the flush is repeated (the call stays in its flush, with
\* nothing returned and nothing changed); every other negative return ends
\* the call with SubmitError carrying that OS error, and then the outstanding
\* count, the registry and the rings are unchanged (a wait that fails so
\* drops its own handle as it returns).
C22_FlushErrors ==
    /\ [](pc = "flush" => \A e \in OtherErrnos : ENABLED FlushFails(e))
    /\ [][ret'.err = "SubmitError" =>
            /\ pc = "flush" /\ pc' = "idle"
            /\ Errno(ret') \in OtherErrnos
            /\ Errno(ret') # EBUSY
            /\ state'.submitted_count = state.submitted_count
            /\ state'.id_gen = state.id_gen
            /\ sq' = sq /\ inflight' = inflight /\ cq' = cq
            /\ IF ret'.op = "wait"
               THEN state'.map = Handle_drop(state.map, target)
               ELSE state'.map = state.map /\ handles' = handles
       ]_vars
    /\ [][(pc = "flush" /\ busy' = busy + 1) =>
            /\ pc' = "flush" /\ cont' = cont
            /\ ret'.op = ""
            /\ state' = state /\ sq' = sq /\ inflight' = inflight /\ cq' = cq
            /\ handles' = handles
       ]_vars
    /\ [](ret.err # "" => Errno(ret) # EBUSY)

\* A submit has returned SubmitError with the OS error EAGAIN, prepared
\* entries still in the submission queue and earlier ones outstanding.
C22_Witness ==
    /\ ret.op = "submit" /\ ret.err = "SubmitError" /\ ret.n = 11
    /\ Len(sq) >= 1
    /\ state.submitted_count >= 1
    /\ pc = "idle"

----------------------------------------------------------------------------
\* The kernel reports something other than busy in this step, and the flush
\* ends: with SubmitError, or with the number of entries taken.
FlushEnds ==
    /\ pc = "flush"
    /\ \/ ret'.err = "SubmitError" /\ pc' = "idle"
       \/ ret'.op = "submit" /\ ret'.err = "" /\ pc' = "idle"
       \/ ret'.op = "prepare" /\ ret'.err \in {"", "GetSqeError"} /\ pc' = "idle"
       \/ cont = "wait" /\ pc' = "wait2"

\* C23 (the retry on busy is unbounded): there is no cap on the retries.
\* After any number of busy reports the flush is still in progress and takes
\* the kernel's next report; it ends only when the kernel reports something
\* other than busy, and then it returns to its caller.
C23_UnboundedRetry ==
    /\ [][(pc = "flush" /\ pc' # "flush") => FlushEnds]_vars
    /\ [](pc = "flush" => (ENABLED Flush_ok /\ ENABLED Flush_err))
    /\ [](pc # "aborted")

\* C23 for a flush that meets no more busy reports than the stack holds nested
\* calls: it ends when the kernel reports something other than busy.
C23_WithinStack ==
    (pc = "flush") ~> (pc # "flush")

----------------------------------------------------------------------------
\* C24 (decoding by kind): the conversion of a pair (raw code, operation
\* kind) to the result type of kind K succeeds exactly when the operation
\* kind is K, then with that code and that operation's buffer, and fails with
\* InternalError for each other kind; the entry of every handle made by
\* prepare holds the handle's kind, so the conversion in wait never fails.
C24_DecodingByKind ==
    /\ ret.op = "try_into" =>
          /\ (ret.out.tag = "Ok") <=> (ret.kind = ret.K)
          /\ ret.kind = ret.K =>
                /\ ret.out.res = ret.res /\ ret.out.kind = ret.K
                /\ ret.out.buf = ret.buf
          /\ ret.kind # ret.K => ret.out = ErrOut(InvalidConversion)
    /\ \A id \in DOMAIN handles :
          (handles[id].st = "live" /\ handles[id].flavour = "typed") =>
              /\ id \in DOMAIN state.map
              /\ state.map[id].kind = handles[id].kind
    /\ (ret.op = "wait" /\ ret.h.flavour = "typed") =>
          /\ ret.err # InvalidConversion
          /\ ret.out.tag = "Ok" => ret.out.kind = ret.h.kind

\* The wait on a handle of a sync returned its result, decoded as that kind,
\* while the entry of a handle of another kind is in the registry.
C24_Witness ==
    /\ ret.op = "wait" /\ ret.h.flavour = "typed" /\ ret.h.kind = "Fsync"
    /\ ret.out.tag = "Ok" /\ ret.out.kind = "Fsync"
    /\ \E j \in DOMAIN state.map : state.map[j].kind = "Read"

\* A pair of kind Read was refused by the conversion to the result of a sync.
C24_Refused ==
    /\ ret.op = "try_into" /\ ret.kind = "Read" /\ ret.K = "Fsync"
    /\ ret.out = ErrOut(InvalidConversion)

----------------------------------------------------------------------------
\* The operations flushed to the kernel whose completion is not yet drained:
\* those the kernel executes and those whose completion is in the ring.
Outstanding == SqIds(inflight) \cup SqIds(cq)

\* C25 (outstanding-count accounting): the outstanding count is the number of
\* operations flushed to the kernel whose completion has not been drained; it
\* is never below 0; and each of these operations has a registry entry that
\* is Ongoing or Cancelled.
C25_CountAccounting ==
    /\ state.submitted_count = Len(inflight) + Len(cq)
    /\ state.submitted_count = Cardinality(Outstanding)
    /\ state.submitted_count >= 0
    /\ \A id \in Outstanding :
          /\ id \in DOMAIN state.map
          /\ state.map[id].status \in {"Ongoing", "Cancelled"}

\* A wait has drained a completion and goes on with two operations
\* outstanding, one with the kernel and one completed, one of them abandoned.
C25_Witness ==
    /\ pc \in {"wait1", "wait2"}
    /\ w.drained >= 1
    /\ state.submitted_count = 2
    /\ Len(inflight) = 1 /\ Len(cq) = 1
    /\ \E id \in Outstanding : state.map[id].status = "Cancelled"

----------------------------------------------------------------------------
\* The status of the entry of id before and after the step ("none" when there
\* is no entry).
StatusOf(m, id) == IF id \in DOMAIN m THEN m[id].status ELSE "none"

\* The moves of a status in one step.  A wait that drains the completion of
\* its own identity records it and consumes the entry in the same step, so
\* its entry goes from Ongoing through Completed to removed.
OneWay(id) ==
    LET a == StatusOf(state.map, id)
        b == StatusOf(state'.map, id)
    IN  \/ a = b
        \/ a = "none" /\ b = "Ongoing" /\ id = state.id_gen + 1
        \/ a = "Ongoing" /\ b \in {"Completed", "Cancelled"}
        \/ a \in {"Completed", "Cancelled"} /\ b = "none"
        \/ a = "Ongoing" /\ b = "none" /\ DrainOf(id) /\ Delivered(id)

\* C26 (status transitions are one-way): the status of an entry moves only
\* from Ongoing to Completed or Cancelled, and from Completed or Cancelled to
\* removed; a Completed entry never becomes Ongoing or Cancelled, a Cancelled
\* one never Completed, a removed one never comes back; and while the handle
\* of an identity is alive its entry is in the registry and is not Cancelled.
C26_OneWayStatus ==
    /\ [][\A id \in 1..(MaxOps + 1) : OneWay(id)]_vars
    /\ [](\A id \in DOMAIN handles :
            handles[id].st = "live" =>
                /\ id \in DOMAIN state.map
                /\ state.map[id].status \in {"Ongoing", "Completed"})
    /\ [](\A id \in DOMAIN state.map :
            /\ id \in DOMAIN handles
            /\ state.map[id].status = "Cancelled" => handles[id].st = "gone")

\* The three identities have gone three ways: one entry is Completed with its
\* handle alive, one is Cancelled, and one was removed.
C26_Witness ==
    /\ state.id_gen = 3
    /\ Cardinality(DOMAIN state.map) = 2
    /\ \E i \in DOMAIN state.map : \E j \in DOMAIN state.map :
          /\ state.map[i].status = "Completed" /\ handles[i].st = "live"
          /\ state.map[j].status = "Cancelled"

----------------------------------------------------------------------------
\* A prepare fails in this step.
PrepareFails == ret'.op = "prepare" /\ ret'.err \in {"GetSqeError", "SubmitError"}

\* C27 (a failed prepare consumes nothing): when prepare returns GetSqeError
\* or SubmitError the identity generator and the registry are as before and
\* no handle was made; so the identities that have a handle are always
\* exactly those up to the identity generator, and a successful prepare gets
\* the identity that follows the last one assigned, whatever failed between.
C27_FailedPrepare ==
    /\ [][PrepareFails =>
            /\ state'.id_gen = state.id_gen
            /\ state'.map = state.map
            /\ DOMAIN handles' = DOMAIN handles
            /\ \A id \in DOMAIN handles : handles'[id].st = handles[id].st
       ]_vars
    /\ [][PrepareReturns =>
            /\ ret'.id = state.id_gen + 1
            /\ state'.id_gen = ret'.id
            /\ DOMAIN handles' = DOMAIN handles \cup {ret'.id}
       ]_vars
    /\ [](DOMAIN handles = 1..state.id_gen)

\* A prepare on a full submission queue has failed with SubmitError: the
\* identities assigned are those of the entries still in the queue.
C27_Witness ==
    /\ ret.op = "prepare" /\ ret.err = "SubmitError"
    /\ Len(sq) = entries
    /\ state.id_gen = entries
    /\ DOMAIN state.map = 1..entries
    /\ DOMAIN handles = 1..entries

\* A prepare has succeeded after identities were assigned and a flush took
\* only part of the queue.
C27_AfterPartialFlush ==
    /\ ret.op = "prepare" /\ ret.err = "" /\ ret.fl = 1
    /\ Len(sq) = entries

----------------------------------------------------------------------------
\* wait_single_cqe is in io_uring_wait_cqe (the outstanding count is above 0)
\* and no completion is in the ring or can come: the kernel executes nothing.
BlockedForever ==
    /\ pc \in {"wait1", "wait2", "teardown"}
    /\ state.submitted_count > 0
    /\ cq = <<>>
    /\ inflight = <<>>

\* C28 (no blocking without a pending completion): whenever a drain blocks
\* on the kernel, with the outstanding count above 0, a completion is in the
\* ring or the kernel still executes an operation that will deliver one, so
\* neither wait nor the teardown of the ring blocks for ever; also when
\* operations were flushed with the flag that suppresses the completion of a
\* successful execution.
C28_NoBlockingForever == ~BlockedForever

\* C28 for operations flushed without flags (the requests of Spec).
C28_Unflagged ==
    (pc \in {"wait1", "wait2", "teardown"} /\ state.submitted_count > 0) =>
        (cq # <<>> \/ inflight # <<>>)


====
